---- MODULE Spec2Model ----
(***************************************************************************)
(* A model of web_server.py: the key-value store served over HTTP by       *)
(* KeyValueDbHandler.  The handler is run by http.server.HTTPServer, which  *)
(* is single threaded: connections wait in the listen backlog and are       *)
(* handled one after the other, each handler running to completion.         *)
(* A handler that reads a body waits in rfile.read until the announced      *)
(* bytes have come or the client has ended its sending.                     *)
(*                                                                          *)
(* Strings are TLA+ strings; the string operations of the code              *)
(* (startswith, the substring test `in`, format, urlparse, parse_qs) are    *)
(* computed on them character by character.  JSON values are records        *)
(* tagged with their Python type.  A request body is described by what      *)
(* bytes.decode and json.loads make of it; its JSON text is given in the    *)
(* comments of the bodies.                                                  *)
(***************************************************************************)
EXTENDS Integers, Sequences, FiniteSets, TLC

VARIABLES
    key_value_dict,  \* the module-level dict: a set of <<key, value>> entries
    backlog,         \* requests received and not yet handled, in arrival order
    log,             \* the exchanges completed so far: request and its response
    param_order,     \* iteration order of the set {'key', 'value'} in this process
    rfile_eof        \* the client of the oldest request has ended its sending

vars == <<key_value_dict, backlog, log, param_order, rfile_eof>>

OK_CODE == 200
BAD_REQUEST_CODE == 400
NOT_FOUND_CODE == 404
METHOD_NOT_ALLOWED_CODE == 405
SERVER_ERROR_CODE == 500
JSON_CONTENT_TYPES == <<"application/json">>

---------------------------------------------------------------------------
(* Python strings *)

CharAt(s, i) == SubSeq(s, i, i)

\* A mutant of startswith: the whole string is compared
startswith_whole(s, prefix) == s = prefix

\* str.startswith
startswith(s, prefix) ==
    /\ Len(s) >= Len(prefix)
    /\ SubSeq(s, 1, Len(prefix)) = prefix

\* `needle in s` for two str
str_contains(needle, s) ==
    \E i \in 1..(Len(s) - Len(needle) + 1) :
        SubSeq(s, i, i + Len(needle) - 1) = needle

\* str.find(c) + 1 for a one-character c: the first position of c, 0 if none
Find(s, c) ==
    IF \E i \in 1..Len(s) : CharAt(s, i) = c
    THEN CHOOSE i \in 1..Len(s) :
             /\ CharAt(s, i) = c
             /\ \A j \in 1..(i - 1) : CharAt(s, j) # c
    ELSE 0

\* str.split(sep) for a one-character sep: a sequence of strings
RECURSIVE split(_, _)
split(s, sep) ==
    LET i == Find(s, sep)
    IN  IF i = 0 THEN <<s>>
        ELSE <<SubSeq(s, 1, i - 1)>> \o split(SubSeq(s, i + 1, Len(s)), sep)

\* str.replace(old, new) for a one-character old
RECURSIVE replace(_, _, _)
replace(s, old, new) ==
    LET i == Find(s, old)
    IN  IF i = 0 THEN s
        ELSE SubSeq(s, 1, i - 1) \o new \o replace(SubSeq(s, i + 1, Len(s)), old, new)

Digits == {"0", "1", "2", "3", "4", "5", "6", "7", "8", "9"}

DigitValue(c) ==
    CASE c = "0" -> 0 [] c = "1" -> 1 [] c = "2" -> 2 [] c = "3" -> 3
      [] c = "4" -> 4 [] c = "5" -> 5 [] c = "6" -> 6 [] c = "7" -> 7
      [] c = "8" -> 8 [] c = "9" -> 9

\* Whether int(s) returns; it raises ValueError on any other text.  (Header
\* values reach the handler stripped of surrounding blanks; signs and digit
\* separators are not among the inputs drawn below.)
IsIntLiteral(s) ==
    /\ Len(s) > 0
    /\ \A i \in 1..Len(s) : CharAt(s, i) \in Digits

\* int(s) for a decimal literal
RECURSIVE int(_)
int(s) ==
    IF Len(s) = 0 THEN 0
    ELSE 10 * int(SubSeq(s, 1, Len(s) - 1)) + DigitValue(CharAt(s, Len(s)))

\* The euro sign U+20AC, a character outside Latin-1.  The strings of the model
\* are ASCII, and the model writes ~ for it: no other text below holds a ~.
Euro == "~"

\* Whether s.encode('latin-1', 'strict') returns: send_response encodes the
\* status line so, and a character outside Latin-1 raises UnicodeEncodeError.
Latin1Encodable(s) == ~str_contains(Euro, s)

---------------------------------------------------------------------------
(* JSON values, as json.loads returns them *)

JStr(s) == [t |-> "str", s |-> s, n |-> 0, elems |-> <<>>, fields |-> <<>>]
JInt(n) == [t |-> "int", s |-> "", n |-> n, elems |-> <<>>, fields |-> <<>>]
JBool(b) == [t |-> "bool", s |-> "", n |-> IF b THEN 1 ELSE 0,
             elems |-> <<>>, fields |-> <<>>]
JNull == [t |-> "None", s |-> "", n |-> 0, elems |-> <<>>, fields |-> <<>>]
\* a list of values
JList(elems) == [t |-> "list", s |-> "", n |-> 0, elems |-> elems, fields |-> <<>>]
\* a dict: <<name, value>> pairs in insertion order, names unique
JDict(fields) == [t |-> "dict", s |-> "", n |-> 0, elems |-> <<>>, fields |-> fields]

EmptyDict == JDict(<<>>)

\* x == y in Python: True == 1 and False == 0, other types only equal themselves
PyEq(x, y) ==
    IF x.t \in {"int", "bool"} /\ y.t \in {"int", "bool"} THEN x.n = y.n
    ELSE x = y

\* hash(x) returns: lists and dicts raise TypeError
Hashable(x) == x.t \notin {"list", "dict"}

\* str(x), as format() inserts it, for the values that can be dict keys
PyStr(x) ==
    CASE x.t = "str" -> x.s
      [] x.t = "int" -> ToString(x.n)
      [] x.t = "bool" -> IF x.n = 1 THEN "True" ELSE "False"
      [] x.t = "None" -> "None"

\* repr of a list of str, as format() inserts it: ['key', 'value']
RECURSIVE ReprItems(_)
ReprItems(names) ==
    IF Len(names) = 0 THEN ""
    ELSE IF Len(names) = 1 THEN "'" \o names[1] \o "'"
    ELSE "'" \o names[1] \o "', " \o ReprItems(Tail(names))

ReprList(names) == "[" \o ReprItems(names) \o "]"

\* list(d.keys())
dict_keys(d) == [i \in 1..Len(d.fields) |-> d.fields[i][1]]

\* d[name] for a dict d that has the name
dict_field(d, name) ==
    d.fields[CHOOSE i \in 1..Len(d.fields) : d.fields[i][1] = name][2]

\* Whether `param in obj` raises: int, bool have no __contains__
InRaises(obj) == obj.t \in {"int", "bool", "None"}

\* `param in obj` for a str param: a key of a dict, an element of a list, a
\* substring of a str
PyIn(param, obj) ==
    CASE obj.t = "dict" -> \E i \in 1..Len(obj.fields) : obj.fields[i][1] = param
      [] obj.t = "list" -> \E i \in 1..Len(obj.elems) : obj.elems[i] = JStr(param)
      [] obj.t = "str" -> str_contains(param, obj.s)

---------------------------------------------------------------------------
(* The module-level dict key_value_dict: a set of <<key, value>> entries *)

\* `key in d`, for a hashable key
dict_contains(d, key) == \E e \in d : PyEq(e[1], key)

\* d[key], for a key that is in d
dict_getitem(d, key) == (CHOOSE e \in d : PyEq(e[1], key))[2]

\* A mutant of dict_setitem: the new entry is added beside the old one
dict_setitem_beside(d, key, value) == d \cup {<<key, value>>}

\* d[key] = value: an equal key keeps its entry (and its first key object) and
\* takes the new value; a new key adds an entry
dict_setitem(d, key, value) ==
    IF dict_contains(d, key)
    THEN {IF PyEq(e[1], key) THEN <<e[1], value>> ELSE e : e \in d}
    ELSE d \cup {<<key, value>>}

\* d.pop(key): the dict without the entry of key
dict_pop(d, key) == {e \in d : ~PyEq(e[1], key)}

---------------------------------------------------------------------------
(* Requests: [method, path, headers, body] *)

\* self.headers.items() as a set of <<name, value>> pairs; dict() of it is
\* looked up by the exact name.
HasHeader(headers, name) == \E h \in headers : h[1] = name

HeaderGet(headers, name) == (CHOOSE h \in headers : h[1] = name)[2]

\* The bytes of a body: whether bytes.decode() returns (utf8), whether
\* json.loads of the text returns (json) and then its value (val), and the
\* number of bytes (len).
Bytes(utf8, json, val, len) == [utf8 |-> utf8, json |-> json, val |-> val, len |-> len]

\* b'' : json.loads('') raises ValueError
EmptyBytes == Bytes(TRUE, FALSE, JNull, 0)

\* self.rfile.read(content_len), for a length that is 0 or covers the body
rfile_read(body, content_len) ==
    CASE content_len >= body.len -> body
      [] content_len = 0 -> EmptyBytes

\* Whether self.rfile.read(content_len) waits for the request: the handler
\* reads a body (a POST on the set or the delete route, with a number for
\* Content-Length) and the client has sent fewer bytes than the number.  The
\* read returns when the bytes arrive or the client ends its sending; the
\* connection has no timeout.
read_blocks(req) ==
    /\ req.method = "POST"
    /\ startswith(req.path, "/set") \/ startswith(req.path, "/delete")
    /\ HasHeader(req.headers, "Content-Length")
    /\ IsIntLiteral(HeaderGet(req.headers, "Content-Length"))
    /\ int(HeaderGet(req.headers, "Content-Length")) > req.body.len

\* post_body.decode(), with `except ValueError: body = ''`
decode(post_body) == IF post_body.utf8 THEN post_body ELSE EmptyBytes

\* urllib.parse.unquote for the escapes used by the requests drawn below
RECURSIVE unquote(_)
unquote(s) ==
    LET i == Find(s, "%")
        rest == SubSeq(s, i, Len(s))
    IN  IF i = 0 THEN s
        ELSE SubSeq(s, 1, i - 1) \o
             (CASE startswith(rest, "%E2%82%AC") -> Euro \o unquote(SubSeq(rest, 10, Len(rest)))
                [] startswith(rest, "%20") -> " " \o unquote(SubSeq(rest, 4, Len(rest)))
                [] startswith(rest, "%26") -> "&" \o unquote(SubSeq(rest, 4, Len(rest)))
                [] OTHER -> "%" \o unquote(SubSeq(rest, 2, Len(rest))))

\* urlparse(path).query: what follows the first `?`, the fragment cut off
url_query(path) ==
    LET hash == Find(path, "#")
        url == IF hash = 0 THEN path ELSE SubSeq(path, 1, hash - 1)
        q == Find(url, "?")
    IN  IF q = 0 THEN "" ELSE SubSeq(url, q + 1, Len(url))

\* One name=value piece of a query, as parse_qsl keeps it: <<>> when it is
\* dropped (an empty piece, a piece without `=`, a blank value), else
\* << <<name, value>> >>
qs_pair(name_value) ==
    LET eq == Find(name_value, "=")
        name == SubSeq(name_value, 1, eq - 1)
        value == SubSeq(name_value, eq + 1, Len(name_value))
    IN  IF eq = 0 \/ Len(value) = 0 THEN <<>>
        ELSE << <<unquote(replace(name, "+", " ")), unquote(replace(value, "+", " "))>> >>

RECURSIVE qs_pairs(_)
qs_pairs(pieces) ==
    IF Len(pieces) = 0 THEN <<>>
    ELSE qs_pair(Head(pieces)) \o qs_pairs(Tail(pieces))

\* parse_qs(query): the kept <<name, value>> pairs in order; params[name] is
\* the list of the values of name
parse_qs(query) == qs_pairs(split(query, "&"))

\* 'key' in params
params_has(params, name) == \E i \in 1..Len(params) : params[i][1] = name

\* params[name][0]
params_first(params, name) ==
    params[CHOOSE i \in 1..Len(params) :
               /\ params[i][1] = name
               /\ \A j \in 1..(i - 1) : params[j][1] # name][2]

---------------------------------------------------------------------------
(* Responses *)

\* What a handler run produces: whether an exception left the try block
\* (exc), the status line and the payload written, the dict afterwards, and
\* whether the body was read from rfile.
Outcome(exc, code, message, payload, d, read) ==
    [exc |-> exc, status |-> code, message |-> message, payload |-> payload,
     dict |-> d, read |-> read]

Raise(d, read) == Outcome(TRUE, 0, "", EmptyDict, d, read)

ErrorPayload(text) == JDict(<< <<"error", JStr(text)>> >>)

\* self.send_response(code, message) followed by send_json_response(payload):
\* the status line is encoded as Latin-1 and raises on other characters
\* before anything is written.
send_response(code, message, payload, d, read) ==
    IF Latin1Encodable(message)
    THEN Outcome(FALSE, code, message, payload, d, read)
    ELSE Raise(d, read)

\* A mutant of except_Exception: the body also tells what was raised
except_Exception_detail(r) ==
    IF r.exc
    THEN Outcome(FALSE, SERVER_ERROR_CODE, "Internal Server Error",
                 JDict(<< <<"error", JStr("Internal Server Error")>>,
                          <<"detail", JStr("UnicodeEncodeError")>> >>),
                 r.dict, r.read)
    ELSE r

\* the `except Exception` clause of do_GET and do_POST
except_Exception(r) ==
    IF r.exc
    THEN Outcome(FALSE, SERVER_ERROR_CODE, "Internal Server Error",
                 ErrorPayload("Internal Server Error"), r.dict, r.read)
    ELSE r

---------------------------------------------------------------------------
(* KeyValueDbHandler *)

\* The grave accent of the source's messages: a TLA+ string cannot hold that
\* character, and the model writes an apostrophe for it.
BQ == "'"

ShapeMessage ==
    "Request should accept JSON and its body should be a JSON object. " \o
    BQ \o "Content-Length" \o BQ \o " header should also be specified"

\* A mutant of validate_request_and_load_json: json.loads is called outside a
\* try, and its ValueError leaves the method
validate_request_and_load_json_raising(req) ==
    LET headers == req.headers
        has_length == HasHeader(headers, "Content-Length")
        length_text == IF has_length THEN HeaderGet(headers, "Content-Length") ELSE "0"
    IN  IF ~IsIntLiteral(length_text)
        THEN \* int() raises ValueError before the body is read
             [exc |-> TRUE, read |-> FALSE, is_valid |-> FALSE, json_dict |-> EmptyDict]
        ELSE
        LET content_len == int(length_text)
            post_body == rfile_read(req.body, content_len)
            body == decode(post_body)
            accepted_types == IF HasHeader(headers, "Accept")
                              THEN HeaderGet(headers, "Accept") ELSE ""
            \* a non-empty header value becomes a list of that one string, and
            \* `acc_type in accepted_types` compares with the whole string
            accepts_json ==
                IF accepted_types = "" THEN TRUE
                ELSE \E i \in 1..(Len(JSON_CONTENT_TYPES) + 1) :
                         (JSON_CONTENT_TYPES \o <<"*/*">>)[i] = accepted_types
            is_json_type ==
                /\ HasHeader(headers, "Content-Type")
                /\ HeaderGet(headers, "Content-Type") # ""
                /\ \E i \in 1..Len(JSON_CONTENT_TYPES) :
                       str_contains(JSON_CONTENT_TYPES[i], HeaderGet(headers, "Content-Type"))
            loaded == IF body.json /\ body.val # JNull THEN body.val ELSE EmptyDict
        IN  IF ~accepts_json \/ ~is_json_type
            THEN [exc |-> FALSE, read |-> TRUE, is_valid |-> FALSE, json_dict |-> EmptyDict]
            ELSE [exc |-> ~body.json, read |-> TRUE, is_valid |-> has_length,
                  json_dict |-> loaded]

\* A mutant of validate_request_and_load_json: a request without a
\* Content-Length is read as one of length 0 and is not refused for it
validate_request_and_load_json_nolength(req) ==
    LET headers == req.headers
        has_length == HasHeader(headers, "Content-Length")
        length_text == IF has_length THEN HeaderGet(headers, "Content-Length") ELSE "0"
    IN  IF ~IsIntLiteral(length_text)
        THEN \* int() raises ValueError before the body is read
             [exc |-> TRUE, read |-> FALSE, is_valid |-> FALSE, json_dict |-> EmptyDict]
        ELSE
        LET content_len == int(length_text)
            post_body == rfile_read(req.body, content_len)
            body == decode(post_body)
            accepted_types == IF HasHeader(headers, "Accept")
                              THEN HeaderGet(headers, "Accept") ELSE ""
            \* a non-empty header value becomes a list of that one string, and
            \* `acc_type in accepted_types` compares with the whole string
            accepts_json ==
                IF accepted_types = "" THEN TRUE
                ELSE \E i \in 1..(Len(JSON_CONTENT_TYPES) + 1) :
                         (JSON_CONTENT_TYPES \o <<"*/*">>)[i] = accepted_types
            is_json_type ==
                /\ HasHeader(headers, "Content-Type")
                /\ HeaderGet(headers, "Content-Type") # ""
                /\ \E i \in 1..Len(JSON_CONTENT_TYPES) :
                       str_contains(JSON_CONTENT_TYPES[i], HeaderGet(headers, "Content-Type"))
            loaded == IF body.json /\ body.val # JNull THEN body.val ELSE EmptyDict
        IN  IF ~accepts_json \/ ~is_json_type
            THEN [exc |-> FALSE, read |-> TRUE, is_valid |-> FALSE, json_dict |-> EmptyDict]
            ELSE [exc |-> FALSE, read |-> TRUE, is_valid |-> TRUE, json_dict |-> loaded]

\* _validate_request_and_load_json: [exc, read, is_valid, json_dict]
validate_request_and_load_json(req) ==
    LET headers == req.headers
        has_length == HasHeader(headers, "Content-Length")
        length_text == IF has_length THEN HeaderGet(headers, "Content-Length") ELSE "0"
    IN  IF ~IsIntLiteral(length_text)
        THEN \* int() raises ValueError before the body is read
             [exc |-> TRUE, read |-> FALSE, is_valid |-> FALSE, json_dict |-> EmptyDict]
        ELSE
        LET content_len == int(length_text)
            post_body == rfile_read(req.body, content_len)
            body == decode(post_body)
            accepted_types == IF HasHeader(headers, "Accept")
                              THEN HeaderGet(headers, "Accept") ELSE ""
            \* a non-empty header value becomes a list of that one string, and
            \* `acc_type in accepted_types` compares with the whole string
            accepts_json ==
                IF accepted_types = "" THEN TRUE
                ELSE \E i \in 1..(Len(JSON_CONTENT_TYPES) + 1) :
                         (JSON_CONTENT_TYPES \o <<"*/*">>)[i] = accepted_types
            is_json_type ==
                /\ HasHeader(headers, "Content-Type")
                /\ HeaderGet(headers, "Content-Type") # ""
                /\ \E i \in 1..Len(JSON_CONTENT_TYPES) :
                       str_contains(JSON_CONTENT_TYPES[i], HeaderGet(headers, "Content-Type"))
            loaded == IF body.json /\ body.val # JNull THEN body.val ELSE EmptyDict
        IN  IF ~accepts_json \/ ~is_json_type
            THEN [exc |-> FALSE, read |-> TRUE, is_valid |-> FALSE, json_dict |-> EmptyDict]
            ELSE [exc |-> FALSE, read |-> TRUE, is_valid |-> has_length, json_dict |-> loaded]

\* validate_json_request: [exc, read, is_valid, payload], expected_params a
\* sequence of names
validate_json_request(req, expected_params) ==
    LET v == validate_request_and_load_json(req)
        bad(raised, payload) ==
            [exc |-> raised, read |-> v.read, is_valid |-> FALSE, payload |-> payload]
    IN  IF v.exc THEN bad(TRUE, EmptyDict)
        ELSE IF ~v.is_valid THEN bad(FALSE, ErrorPayload(ShapeMessage))
        ELSE IF InRaises(v.json_dict)
             THEN \* `param in 5`: TypeError
                  bad(TRUE, EmptyDict)
        ELSE IF ~(\A i \in 1..Len(expected_params) : PyIn(expected_params[i], v.json_dict))
             THEN IF v.json_dict.t # "dict"
                  THEN \* a list or a str has no keys(): AttributeError
                       bad(TRUE, EmptyDict)
                  ELSE bad(FALSE, ErrorPayload(
                           "Request is missing parameters. Expected: "
                           \o ReprList(expected_params) \o ", Found: "
                           \o ReprList(dict_keys(v.json_dict))))
        ELSE [exc |-> FALSE, read |-> v.read, is_valid |-> TRUE, payload |-> v.json_dict]

InvalidPath(path, d, read) ==
    send_response(NOT_FOUND_CODE,
                  "invalid path " \o BQ \o path \o BQ \o ". Unavailable resource",
                  ErrorPayload("invalid path " \o BQ \o path \o BQ \o ". Unavailable resource"),
                  d, read)

\* the try block of do_GET
do_GET_try(req, d) ==
    IF startswith(req.path, "/get")
    THEN LET params == parse_qs(url_query(req.path))
         IN  IF ~params_has(params, "key")
             THEN send_response(BAD_REQUEST_CODE, "Missing key parameter",
                                ErrorPayload("Missing key parameter"), d, FALSE)
             ELSE LET key == JStr(params_first(params, "key"))
                      text == "Key " \o BQ \o PyStr(key) \o BQ \o " does not exist in the database"
                  IN  IF ~dict_contains(d, key)
                      THEN send_response(NOT_FOUND_CODE, text, ErrorPayload(text), d, FALSE)
                      ELSE send_response(OK_CODE, "OK",
                               JDict(<< <<"key", key>>,
                                        <<"value", dict_getitem(d, key)>> >>), d, FALSE)
    ELSE IF startswith(req.path, "/set") \/ startswith(req.path, "/delete")
    THEN send_response(METHOD_NOT_ALLOWED_CODE,
                       "Method Not Allowed. Using GET instead of POST",
                       ErrorPayload("Method Not Allowed. Using GET instead of POST"),
                       d, FALSE)
    ELSE InvalidPath(req.path, d, FALSE)

\* do_GET: the response to req on dict d, and the dict afterwards
do_GET(req, d) == except_Exception(do_GET_try(req, d))

\* A mutant of post_set: a key that is in the dict is not written again, the
\* handler fails instead
post_set_once(req, d, set_params) ==
    LET r == validate_json_request(req, set_params)
        payload == r.payload
    IN  IF r.exc THEN Raise(d, r.read)
        ELSE IF ~r.is_valid
        THEN send_response(BAD_REQUEST_CODE, dict_field(payload, "error").s,
                           payload, d, r.read)
        ELSE IF payload.t # "dict" THEN Raise(d, r.read)
        ELSE LET key == dict_field(payload, "key")
                 value == dict_field(payload, "value")
             IN  IF ~Hashable(key) \/ dict_contains(d, key)
                 THEN Raise(d, r.read)
                 ELSE send_response(OK_CODE, "OK", payload,
                                    dict_setitem(d, key, value), r.read)

\* A mutant of post_set: the 200 names the key in its status line, as the
\* answers of the other branches do, after the dict was written
post_set_message(req, d, set_params) ==
    LET r == validate_json_request(req, set_params)
        payload == r.payload
    IN  IF r.exc THEN Raise(d, r.read)
        ELSE IF ~r.is_valid
        THEN send_response(BAD_REQUEST_CODE, dict_field(payload, "error").s,
                           payload, d, r.read)
        ELSE IF payload.t # "dict" THEN Raise(d, r.read)
        ELSE LET key == dict_field(payload, "key")
                 value == dict_field(payload, "value")
             IN  IF ~Hashable(key)
                 THEN Raise(d, r.read)
                 ELSE send_response(OK_CODE, "Set " \o PyStr(key), payload,
                                    dict_setitem(d, key, value), r.read)

\* the `/set` branch of do_POST; set_params is list({'key', 'value'})
post_set(req, d, set_params) ==
    LET r == validate_json_request(req, set_params)
        payload == r.payload
    IN  IF r.exc THEN Raise(d, r.read)
        ELSE IF ~r.is_valid
        THEN send_response(BAD_REQUEST_CODE, dict_field(payload, "error").s,
                           payload, d, r.read)
        ELSE IF payload.t # "dict"
        THEN \* payload['key'] on a list or a str: TypeError
             Raise(d, r.read)
        ELSE LET key == dict_field(payload, "key")
                 value == dict_field(payload, "value")
             IN  IF ~Hashable(key)
                 THEN \* `key in key_value_dict`: TypeError
                      Raise(d, r.read)
                 ELSE send_response(OK_CODE, "OK", payload,
                                    dict_setitem(d, key, value), r.read)

\* the `/delete` branch of do_POST
post_delete(req, d) ==
    LET r == validate_json_request(req, <<"key">>)
        payload == r.payload
    IN  IF r.exc THEN Raise(d, r.read)
        ELSE IF ~r.is_valid
        THEN send_response(BAD_REQUEST_CODE, dict_field(payload, "error").s,
                           payload, d, r.read)
        ELSE IF payload.t # "dict" THEN Raise(d, r.read)
        ELSE LET key == dict_field(payload, "key")
             IN  IF ~Hashable(key) THEN Raise(d, r.read)
                 ELSE IF dict_contains(d, key)
                 THEN send_response(OK_CODE, "OK",
                          JDict(<< <<"key", key>>,
                                   <<"value", dict_getitem(d, key)>> >>),
                          dict_pop(d, key), r.read)
                 ELSE LET text == "'Key " \o BQ \o PyStr(key) \o BQ \o " does not exist"
                      IN  send_response(OK_CODE, text,
                                        JDict(<< <<"message", JStr(text)>> >>),
                                        d, r.read)

\* the try block of do_POST
do_POST_try(req, d, set_params) ==
    IF startswith(req.path, "/set") THEN post_set(req, d, set_params)
    ELSE IF startswith(req.path, "/delete") THEN post_delete(req, d)
    ELSE IF startswith(req.path, "/get")
    THEN send_response(METHOD_NOT_ALLOWED_CODE,
                       "Method Not Allowed. Using POST instead of GET",
                       ErrorPayload("Method Not Allowed. Using POST instead of GET"),
                       d, FALSE)
    ELSE InvalidPath(req.path, d, FALSE)

\* do_POST: the response to req on dict d, and the dict afterwards
do_POST(req, d, set_params) == except_Exception(do_POST_try(req, d, set_params))

---------------------------------------------------------------------------
(* The requests clients send *)

Request(method, path, headers, body) ==
    [method |-> method, path |-> path, headers |-> headers, body |-> body]

\* The number of bytes of the UTF-8 encoding of a key: the euro sign takes 3.
RECURSIVE Utf8Len(_)
Utf8Len(s) ==
    IF Len(s) = 0 THEN 0
    ELSE (IF CharAt(s, 1) = Euro THEN 3 ELSE 1) + Utf8Len(SubSeq(s, 2, Len(s)))

\* The percent-encoding a client gives a key in a query string.
RECURSIVE url_quote(_)
url_quote(s) ==
    IF Len(s) = 0 THEN ""
    ELSE (IF CharAt(s, 1) = Euro THEN "%E2%82%AC" ELSE CharAt(s, 1))
         \o url_quote(SubSeq(s, 2, Len(s)))

\* The body {"key": k, "value": n} for a str k and a one-digit n
SetBody(k, n) ==
    Bytes(TRUE, TRUE, JDict(<< <<"key", JStr(k)>>, <<"value", JInt(n)>> >>),
          23 + Utf8Len(k))

\* The body {"key": k} for a str k
DeleteBody(k) ==
    Bytes(TRUE, TRUE, JDict(<< <<"key", JStr(k)>> >>), 11 + Utf8Len(k))

\* The headers of a well-formed JSON request with that body
JsonHeaders(body) ==
    {<<"Content-Length", ToString(body.len)>>, <<"Content-Type", "application/json">>}

\* GET /get?key=k
GetRequest(k) == Request("GET", "/get?key=" \o url_quote(k), {}, EmptyBytes)

\* POST /set {"key": k, "value": n}
SetRequest(k, n) == Request("POST", "/set", JsonHeaders(SetBody(k, n)), SetBody(k, n))

\* POST /delete {"key": k}
DeleteRequest(k) == Request("POST", "/delete", JsonHeaders(DeleteBody(k)), DeleteBody(k))

\* Bounds of the model
MaxRequests == 3
MaxBacklog == 2

StoreKeys == {"a", "", Euro}
StoreValues == {1, 2}

\* The well-formed requests of the three operations
StoreRequests ==
    {GetRequest(k) : k \in StoreKeys}
    \cup {SetRequest(k, n) : k \in StoreKeys, n \in StoreValues}
    \cup {DeleteRequest(k) : k \in StoreKeys}

---------------------------------------------------------------------------
(* Requests of every shape: headers, bodies and paths that the handler may
   reject *)

\* Bodies, each with its text and its number of bytes
WireBodies ==
    { SetBody("a", 1),                                  \* {"key": "a", "value": 1}
      DeleteBody("a"),                                  \* {"key": "a"}
      Bytes(TRUE, TRUE, JDict(<< <<"value", JInt(1)>> >>), 12),   \* {"value": 1}
      Bytes(TRUE, TRUE, EmptyDict, 2),                  \* {}
      Bytes(TRUE, TRUE, JDict(<< <<Euro, JInt(1)>> >>), 10),      \* {"<euro sign>": 1}
      Bytes(TRUE, TRUE,                       \* {"key": "a", "value": 1, "extra": 3}
            JDict(<< <<"key", JStr("a")>>, <<"value", JInt(1)>>,
                     <<"extra", JInt(3)>> >>), 36),
      Bytes(TRUE, TRUE,                                 \* {"key": 1, "value": 1}
            JDict(<< <<"key", JInt(1)>>, <<"value", JInt(1)>> >>), 22),
      Bytes(TRUE, TRUE,                                 \* {"key": true, "value": 2}
            JDict(<< <<"key", JBool(TRUE)>>, <<"value", JInt(2)>> >>), 25),
      Bytes(TRUE, TRUE,                                 \* {"key": [1], "value": 1}
            JDict(<< <<"key", JList(<<JInt(1)>>)>>, <<"value", JInt(1)>> >>), 24),
      Bytes(TRUE, TRUE, JList(<<JStr("key"), JStr("value")>>), 16),  \* ["key", "value"]
      Bytes(TRUE, TRUE, JList(<<JInt(1)>>), 3),         \* [1]
      Bytes(TRUE, TRUE, JStr("key value"), 11),         \* "key value"
      Bytes(TRUE, TRUE, JStr("x"), 3),                  \* "x"
      Bytes(TRUE, TRUE, JInt(5), 1),                    \* 5
      Bytes(TRUE, TRUE, JBool(TRUE), 4),                \* true
      Bytes(TRUE, TRUE, JNull, 4),                      \* null
      Bytes(TRUE, FALSE, JNull, 5),                     \* {nope
      Bytes(FALSE, FALSE, JNull, 2) }                   \* the bytes FF FE

\* Content-Length: none, the length of the body, 0, or not a number
LengthHeaders(body) ==
    { {}, {<<"Content-Length", ToString(body.len)>>}, {<<"Content-Length", "0">>},
      {<<"Content-Length", "abc">>} }

ContentTypeHeaders ==
    { {}, {<<"Content-Type", "text/plain">>}, {<<"Content-Type", "application/json">>},
      {<<"Content-Type", "application/json; charset=utf-8">>} }

AcceptHeaders ==
    { {}, {<<"Accept", "application/json">>}, {<<"Accept", "*/*">>},
      {<<"Accept", "text/html">>}, {<<"Accept", "text/html, application/json">>} }

WireHeaders(body) ==
    {l \cup c \cup a : l \in LengthHeaders(body), c \in ContentTypeHeaders,
                       a \in AcceptHeaders}

\* Paths by the route the dispatcher is to give them
SetPaths == {"/set", "/set/x"}
DeletePaths == {"/delete", "/deleted"}
GetPaths == {"/get", "/getfoo"}
OtherPaths == {"/nonexistent", "/", "/se"}

\* Query strings of GET requests
Queries == {"", "?key=a", "?key=", "?key=&key=a", "?Key=a", "?key=%E2%82%AC", "?key=1"}

WireRequests ==
    UNION {{Request("POST", p, h, b) : h \in WireHeaders(b)} :
              p \in SetPaths \cup DeletePaths, b \in WireBodies}
    \cup {Request("POST", p, h, SetBody("a", 1)) :
        p \in GetPaths \cup OtherPaths, h \in WireHeaders(SetBody("a", 1))}
    \cup {Request("GET", p \o q, {}, EmptyBytes) :
        p \in SetPaths \cup DeletePaths \cup GetPaths \cup OtherPaths, q \in Queries}

---------------------------------------------------------------------------
(* The server *)

\* One completed exchange: the request, the number of requests in flight when
\* it was taken from the backlog (itself and those behind it, which are served
\* next in that order), the dict it found, the response
Exchange(req, inflight, before, r) ==
    [req |-> req, inflight |-> inflight, before |-> before, status |-> r.status,
     message |-> r.message, payload |-> r.payload, read |-> r.read]

\* list({'key', 'value'}): the order depends on the hash seed of the process
ParamOrders == {<<"key", "value">>, <<"value", "key">>}

Init ==
    /\ key_value_dict = {}
    /\ backlog = <<>>
    /\ log = <<>>
    /\ param_order \in ParamOrders
    /\ rfile_eof = FALSE

\* A client's request, one of reqs, arrives and waits in the backlog.
Connect(reqs) ==
    /\ Len(backlog) < MaxBacklog
    /\ Len(log) + Len(backlog) < MaxRequests
    /\ \E req \in reqs : backlog' = Append(backlog, req)
    /\ UNCHANGED <<key_value_dict, log, param_order, rfile_eof>>

\* The handler has run to its end with outcome r: the dict is as it left it
\* and the client has the response.
Served(r) ==
    /\ key_value_dict' = r.dict
    /\ log' = Append(log, Exchange(Head(backlog), Len(backlog), key_value_dict, r))
    /\ backlog' = Tail(backlog)
    /\ rfile_eof' = FALSE
    /\ UNCHANGED param_order

\* The server takes the oldest request, a GET, and runs do_GET.
HandleGET ==
    /\ backlog # <<>>
    /\ Head(backlog).method = "GET"
    /\ Served(do_GET(Head(backlog), key_value_dict))

\* The server takes the oldest request, a POST, and runs do_POST, which
\* comes to its end once the read of the body returns.
HandlePOST ==
    /\ backlog # <<>>
    /\ Head(backlog).method = "POST"
    /\ ~read_blocks(Head(backlog)) \/ rfile_eof
    /\ Served(do_POST(Head(backlog), key_value_dict, param_order))

Next ==
    \/ Connect(StoreRequests)
    \/ HandleGET
    \/ HandlePOST

Spec == Init /\ [][Next]_vars

\* One client that sends a request of any shape, waits for the response and
\* reads it before it sends the next.
Send(reqs) ==
    /\ backlog = <<>>
    /\ log = <<>>
    /\ \E req \in reqs : backlog' = <<req>>
    /\ UNCHANGED <<key_value_dict, log, param_order, rfile_eof>>

Receive ==
    /\ log # <<>>
    /\ log' = <<>>
    /\ UNCHANGED <<key_value_dict, backlog, param_order, rfile_eof>>

NextWire ==
    \/ Send(WireRequests)
    \/ HandleGET
    \/ HandlePOST
    \/ Receive

SpecWire == Init /\ [][NextWire]_vars

\* Requests of every outcome: the store operations on two keys, and requests
\* that each branch of the two handlers refuses
SeqRequests ==
    { SetRequest("a", 1), SetRequest("a", 2), SetRequest(Euro, 1),
      DeleteRequest("a"), DeleteRequest(Euro),
      GetRequest("a"), GetRequest(Euro),
      Request("GET", "/get", {}, EmptyBytes),
      Request("GET", "/set", {}, EmptyBytes),
      Request("GET", "/nonexistent", {}, EmptyBytes),
      Request("POST", "/get", JsonHeaders(SetBody("a", 1)), SetBody("a", 1)),
      Request("POST", "/nonexistent", JsonHeaders(SetBody("a", 1)), SetBody("a", 1)),
      \* Content-Type: text/plain
      Request("POST", "/set",
              {<<"Content-Length", "24">>, <<"Content-Type", "text/plain">>},
              SetBody("a", 2)),
      \* no Content-Length
      Request("POST", "/set", {<<"Content-Type", "application/json">>}, SetBody("a", 2)),
      \* Content-Length: abc
      Request("POST", "/delete",
              {<<"Content-Length", "abc">>, <<"Content-Type", "application/json">>},
              DeleteBody("a")),
      \* no field `value`
      Request("POST", "/set", JsonHeaders(DeleteBody("a")), DeleteBody("a")),
      \* the body 5
      Request("POST", "/delete", JsonHeaders(Bytes(TRUE, TRUE, JInt(5), 1)),
              Bytes(TRUE, TRUE, JInt(5), 1)) }

\* One client that sends its requests one after the other, each after the
\* response to the one before.
Ask(reqs) ==
    /\ backlog = <<>>
    /\ Len(log) < MaxRequests
    /\ \E req \in reqs : backlog' = <<req>>
    /\ UNCHANGED <<key_value_dict, log, param_order, rfile_eof>>

NextSeq ==
    \/ Ask(SeqRequests)
    \/ HandleGET
    \/ HandlePOST

SpecSeq == Init /\ [][NextSeq]_vars

\* Store requests on one key, a request that raises, and a POST /set that
\* announces 100 bytes and sends the 24 of its body
LiveRequests ==
    { SetRequest("a", 1), DeleteRequest("a"), GetRequest("a"),
      Request("GET", "/nonexistent", {}, EmptyBytes),
      Request("POST", "/delete",
              {<<"Content-Length", "abc">>, <<"Content-Type", "application/json">>},
              DeleteBody("a")),
      Request("POST", "/set",
              {<<"Content-Length", "100">>, <<"Content-Type", "application/json">>},
              SetBody("a", 1)) }

\* The client of the oldest request, whose handler waits in rfile.read, ends
\* its sending (it shuts down its side of the connection and goes on
\* reading): the read returns the bytes that were sent.
Shutdown ==
    /\ backlog # <<>>
    /\ read_blocks(Head(backlog))
    /\ ~rfile_eof
    /\ rfile_eof' = TRUE
    /\ UNCHANGED <<key_value_dict, backlog, log, param_order>>

\* The dicts that the requests of LiveRequests make
LiveDicts == {{}, {<<JStr("a"), JInt(1)>>}}

\* do_GET and do_POST on the requests of LiveRequests, computed once
LiveOutcome ==
    [req \in LiveRequests, d \in LiveDicts, order \in ParamOrders |->
        IF req.method = "GET" THEN do_GET(req, d) ELSE do_POST(req, d, order)]

\* The requests of LiveRequests whose handler waits in rfile.read
LiveBlocked == {req \in LiveRequests : read_blocks(req)}

\* HandleGET and HandlePOST in one action: the server takes the oldest
\* request and runs its handler, which comes to its end once the read of the
\* body returns.
HandleLive ==
    /\ backlog # <<>>
    /\ Head(backlog) \notin LiveBlocked \/ rfile_eof
    /\ Served(LiveOutcome[Head(backlog), key_value_dict, param_order])

NextLive ==
    \/ Connect(LiveRequests)
    \/ HandleLive
    \/ Shutdown

\* serve_forever takes the next connection whenever a handler has returned;
\* a client is under no obligation.
SpecLive ==
    /\ Init
    /\ [][NextLive]_vars
    /\ WF_vars(HandleLive)

---------------------------------------------------------------------------
(* Reading the log *)

\* The dict after exchange j: the one the next handler found, or the present
\* one.
AfterStore(j) == IF j < Len(log) THEN log[j + 1].before ELSE key_value_dict

EntryPayload(k, n) == JDict(<< <<"key", JStr(k)>>, <<"value", JInt(n)>> >>)

\* The path of GET /get?key=k, for the keys of StoreKeys
GetPathOf == [k \in StoreKeys |-> GetRequest(k).path]

\* Exchange e is a GET /get?key=k
IsGet(e, k) == e.req.method = "GET" /\ e.req.path = GetPathOf[k]

\* Exchange e is a valid POST /delete with the body {"key": k}
IsDelete(e, k) ==
    /\ e.req.method = "POST"
    /\ e.req.path = "/delete"
    /\ e.req.headers = JsonHeaders(e.req.body)
    /\ e.req.body.val = JDict(<< <<"key", JStr(k)>> >>)

\* Exchange e is a valid POST /set with the body {"key": k, "value": n}
IsSet(e, k, n) ==
    /\ e.req.method = "POST"
    /\ e.req.path = "/set"
    /\ e.req.headers = JsonHeaders(e.req.body)
    /\ e.req.body.val = EntryPayload(k, n)

\* Exchange e is a POST /set of (k, n) answered 200
SetOK(e, k, n) == IsSet(e, k, n) /\ e.status = OK_CODE

\* Exchange e is a POST /delete of k answered with the removed entry
DeleteOK(e, k) ==
    /\ IsDelete(e, k)
    /\ e.status = OK_CODE
    /\ dict_keys(e.payload) = <<"key", "value">>

\* No set or delete of k succeeded at the positions strictly between i and j
Untouched(k, i, j) ==
    \A m \in (i + 1)..(j - 1) :
        /\ ~DeleteOK(log[m], k)
        /\ \A n \in StoreValues : ~SetOK(log[m], k, n)

\* The response of exchange e carries the value n
Carries(e, n) ==
    \E f \in 1..Len(e.payload.fields) : e.payload.fields[f][2] = JInt(n)

\* The entries of dict d whose key is the str k
EntriesOf(d, k) == {e \in d : e[1] = JStr(k)}

---------------------------------------------------------------------------
(* C1 to C5: the store operations (Spec) *)

\* C1 (as claimed): for every key k and value n, a GET /get?key=k that follows
\* a POST /set of (k, n) answered 200, with no set or delete of k between the
\* two, is answered 200 with the body {"key": k, "value": n}.
C1_RoundTrip ==
    \A j \in 1..Len(log), k \in StoreKeys :
        IsGet(log[j], k) =>
            \A i \in 1..(j - 1), n \in StoreValues :
                (SetOK(log[i], k, n) /\ Untouched(k, i, j))
                => (log[j].status = OK_CODE /\ log[j].payload = EntryPayload(k, n))

\* C2: after two POST /set of the same key k answered 200, with values n1 and
\* then n2 # n1, the dict holds exactly one entry for k and its value is n2;
\* and as long as k is not set again, no response to a GET or a delete of k
\* carries n1.
C2_Overwrite ==
    \A j \in 1..Len(log), k \in StoreKeys, n2 \in StoreValues :
        SetOK(log[j], k, n2) =>
            \A i \in 1..(j - 1), n1 \in StoreValues \ {n2} :
                SetOK(log[i], k, n1) =>
                    /\ EntriesOf(AfterStore(j), k) = {<<JStr(k), JInt(n2)>>}
                    /\ \A m \in (j + 1)..Len(log) :
                           (/\ IsGet(log[m], k) \/ IsDelete(log[m], k)
                            /\ \A x \in (j + 1)..(m - 1), n \in StoreValues :
                                   ~SetOK(log[x], k, n))
                           => ~Carries(log[m], n1)

\* C2's case: key a set to 1, then to 2, then read back as 2
C2_Witness ==
    /\ Len(log) = 3
    /\ SetOK(log[1], "a", 1)
    /\ SetOK(log[2], "a", 2)
    /\ IsGet(log[3], "a")
    /\ log[3].payload = EntryPayload("a", 2)

\* C3 (as claimed): a POST /delete of a key k that is in the dict with value n
\* is answered 200 with {"key": k, "value": n}, afterwards k is not in the
\* dict, and a GET /get?key=k that follows is answered 404.
C3_DeletePresent ==
    \A j \in 1..Len(log), k \in StoreKeys :
        IsDelete(log[j], k) =>
            \A n \in StoreValues :
                <<JStr(k), JInt(n)>> \in log[j].before =>
                    /\ log[j].status = OK_CODE
                    /\ log[j].payload = EntryPayload(k, n)
                    /\ EntriesOf(AfterStore(j), k) = {}
                    /\ (j < Len(log) /\ IsGet(log[j + 1], k))
                       => log[j + 1].status = NOT_FOUND_CODE

\* C4 (as claimed): a POST /delete of a key that is not in the dict is
\* answered 200 with a body that has the one field `message`, and leaves the
\* dict as it was; so the second of two deletes of a key in a row is.
C4_IdempotentDelete ==
    \A j \in 1..Len(log), k \in StoreKeys :
        (IsDelete(log[j], k) /\ EntriesOf(log[j].before, k) = {})
        => /\ log[j].status = OK_CODE
           /\ dict_keys(log[j].payload) = <<"message">>
           /\ AfterStore(j) = log[j].before

\* C5: when N >= 2 POST /set of one key with N distinct values are in flight
\* together, each is answered 200, and when the last is served the dict holds
\* exactly one entry for the key, whose value is one of the N.
C5_ConcurrentWriters ==
    \A j \in 1..Len(log) :
        LET N == log[j].inflight
            last == j + N - 1
        IN  (N >= 2 /\ last <= Len(log)) =>
                \A k \in StoreKeys :
                    (/\ \A m \in j..last : \E n \in StoreValues : IsSet(log[m], k, n)
                     /\ \A m1 \in j..last, m2 \in j..last :
                            m1 # m2 => log[m1].req # log[m2].req)
                    => /\ \A m \in j..last : log[m].status = OK_CODE
                       /\ \E m \in j..last, n \in StoreValues :
                              /\ IsSet(log[m], k, n)
                              /\ EntriesOf(AfterStore(last), k) = {<<JStr(k), JInt(n)>>}

\* C5's case: two sets of key a with values 1 and 2 were in flight together
\* and both have been served
C5_Witness ==
    /\ Len(log) >= 2
    /\ log[1].inflight = 2
    /\ SetOK(log[1], "a", 2)
    /\ SetOK(log[2], "a", 1)
    /\ key_value_dict = {<<JStr("a"), JInt(1)>>}

---------------------------------------------------------------------------
(* C6 to C10: validation and routing, one request at a time (SpecWire) *)

HeaderIs(req, name, values) ==
    \E h \in req.headers : h[1] = name /\ h[2] \in values

NoHeader(req, name) == \A h \in req.headers : h[1] # name

\* The Content-Type holds the JSON media type
JsonContentType(req) ==
    HeaderIs(req, "Content-Type", {"application/json", "application/json; charset=utf-8"})

\* The Content-Length is the length of the body
ExactLength(req) == HeaderIs(req, "Content-Length", {ToString(req.body.len)})

\* No Accept header, or one that is the JSON media type or the wildcard
PlainAccept(req) ==
    NoHeader(req, "Accept") \/ HeaderIs(req, "Accept", {"application/json", "*/*"})

\* A POST on the set route (IsSet) or on the delete route
PostOn(req, paths) == req.method = "POST" /\ req.path \in paths

\* The body is a JSON object
ObjectBody(req) == req.body.utf8 /\ req.body.json /\ req.body.val.t = "dict"

HasField(req, name) ==
    \E i \in 1..Len(req.body.val.fields) : req.body.val.fields[i][1] = name

\* The error of exchange e is the missing-parameters message for the expected
\* names in some order and the names found in the body
NamesFields(e, expected) ==
    /\ dict_keys(e.payload) = <<"error">>
    /\ \E order \in {<<"key", "value">>, <<"value", "key">>, <<"key">>} :
           /\ {order[i] : i \in 1..Len(order)} = expected
           /\ e.payload.fields[1][2] =
                  JStr("Request is missing parameters. Expected: " \o ReprList(order)
                       \o ", Found: " \o ReprList(dict_keys(e.req.body.val)))

Unchanged(j) == AfterStore(j) = log[j].before

\* C6 (as claimed): a POST /set with a JSON content type and a length header
\* whose body is a JSON object without `key` or without `value`, and a POST
\* /delete whose object has no `key`, is answered 400 with an error that names
\* the expected fields and the fields found, and the dict is unchanged.  (The
\* Accept header is taken to be absent or plainly acceptable.)
C6_MissingField ==
    \A j \in 1..Len(log) :
        LET e == log[j]
            basics == /\ JsonContentType(e.req) /\ ExactLength(e.req)
                      /\ PlainAccept(e.req) /\ ObjectBody(e.req)
        IN  /\ (/\ PostOn(e.req, SetPaths) /\ basics
                /\ (~HasField(e.req, "key") \/ ~HasField(e.req, "value")))
               => (/\ e.status = BAD_REQUEST_CODE
                   /\ NamesFields(e, {"key", "value"})
                   /\ Unchanged(j))
            /\ (PostOn(e.req, DeletePaths) /\ basics /\ ~HasField(e.req, "key"))
               => (/\ e.status = BAD_REQUEST_CODE
                   /\ NamesFields(e, {"key"})
                   /\ Unchanged(j))

\* C7 (as claimed): a POST /set or /delete whose Content-Type is absent or
\* holds no JSON media type is answered 400, whatever the body and the other
\* headers, and the dict is unchanged; application/json; charset=utf-8 passes
\* the check, so that a request that is valid otherwise is answered 200.
C7_ContentNegotiation ==
    \A j \in 1..Len(log) :
        LET e == log[j]
        IN  /\ (PostOn(e.req, SetPaths \cup DeletePaths) /\ ~JsonContentType(e.req))
               => (e.status = BAD_REQUEST_CODE /\ Unchanged(j))
            /\ (/\ PostOn(e.req, SetPaths)
                /\ HeaderIs(e.req, "Content-Type", {"application/json; charset=utf-8"})
                /\ ExactLength(e.req) /\ PlainAccept(e.req)
                /\ e.req.body = SetBody("a", 1))
               => e.status = OK_CODE

\* C8 (as claimed): a POST /set or /delete that is valid otherwise is accepted
\* when it has no Accept header and when the types of its Accept header
\* include the JSON media type or the wildcard, also beside other types; it is
\* answered 400 only when its Accept header names types and none of them
\* matches.
C8_AcceptCheck ==
    \A j \in 1..Len(log) :
        LET e == log[j]
            valid == /\ JsonContentType(e.req) /\ ExactLength(e.req)
                     /\ \/ PostOn(e.req, SetPaths) /\ e.req.body = SetBody("a", 1)
                        \/ PostOn(e.req, DeletePaths) /\ e.req.body = DeleteBody("a")
            includes == HeaderIs(e.req, "Accept",
                            {"application/json", "*/*", "text/html, application/json"})
        IN  valid =>
                /\ (NoHeader(e.req, "Accept") \/ includes) => e.status = OK_CODE
                /\ e.status = BAD_REQUEST_CODE
                       => (~NoHeader(e.req, "Accept") /\ ~includes)

\* C9 (as claimed): a POST /set or /delete with a JSON content type and a
\* length header whose body is valid JSON and no object (an array, a string, a
\* number, a boolean) is answered 400 with an error body, and the dict is
\* unchanged.
C9_NonObjectBody ==
    \A j \in 1..Len(log) :
        LET e == log[j]
        IN  (/\ PostOn(e.req, SetPaths \cup DeletePaths)
             /\ JsonContentType(e.req) /\ ExactLength(e.req) /\ PlainAccept(e.req)
             /\ e.req.body.utf8 /\ e.req.body.json
             /\ e.req.body.val.t \in {"list", "str", "int", "bool"})
            => (/\ e.status = BAD_REQUEST_CODE
                /\ dict_keys(e.payload) = <<"error">>
                /\ Unchanged(j))

\* The path of req is a path of the family, followed by a query or by none
OnPaths(req, family) == \E p \in family, q \in Queries : req.path = p \o q

\* The request with the bare route in place of the path, the query kept
AtRoute(req, family, route) ==
    [req EXCEPT !.path =
        route \o (CHOOSE q \in Queries : \E p \in family : req.path = p \o q)]

\* Exchange j has the response, and leaves the dict, that r is
SameAs(j, r) ==
    /\ log[j].status = r.status
    /\ log[j].payload = r.payload
    /\ AfterStore(j) = r.dict

\* C10: a GET on a path that begins with /set or /delete and a POST on a path
\* that begins with /get are answered 405; a GET or POST on a path that begins
\* with none of the three is answered 404; in these cases the body is not read
\* and the dict is unchanged; and a path that only begins with /get, /set or
\* /delete is answered as the bare route is.
C10_Routing ==
    \A j \in 1..Len(log) :
        LET e == log[j]
            get == e.req.method = "GET"
            post == e.req.method = "POST"
            wrong_method == \/ get /\ OnPaths(e.req, SetPaths \cup DeletePaths)
                            \/ post /\ OnPaths(e.req, GetPaths)
            no_route == OnPaths(e.req, OtherPaths)
        IN  /\ wrong_method => e.status = METHOD_NOT_ALLOWED_CODE
            /\ no_route => e.status = NOT_FOUND_CODE
            /\ (wrong_method \/ no_route) => (~e.read /\ Unchanged(j))
            /\ (post /\ OnPaths(e.req, SetPaths))
               => SameAs(j, do_POST(AtRoute(e.req, SetPaths, "/set"), e.before, param_order))
            /\ (post /\ OnPaths(e.req, DeletePaths))
               => SameAs(j, do_POST(AtRoute(e.req, DeletePaths, "/delete"),
                                    e.before, param_order))
            /\ (get /\ OnPaths(e.req, GetPaths))
               => SameAs(j, do_GET(AtRoute(e.req, GetPaths, "/get"), e.before))

\* C10's case: with an entry in the dict, a POST to /set/x has just stored a
\* second one as /set does
C10_Witness ==
    /\ Len(log) = 1
    /\ log[1].req.method = "POST"
    /\ log[1].req.path = "/set/x"
    /\ log[1].status = OK_CODE
    /\ log[1].before = {<<JInt(1), JInt(1)>>}
    /\ key_value_dict = {<<JInt(1), JInt(1)>>, <<JStr("a"), JInt(1)>>}

---------------------------------------------------------------------------
(* C11 to C14: the GET route, the keys of the dict, faults, the echo of set
   (SpecWire) *)

\* The key that a query string of a GET names, for the queries with one
\* non-blank key parameter
QueryKey == ("?key=a" :> "a") @@ ("?key=%E2%82%AC" :> Euro) @@ ("?key=1" :> "1")

\* The queries without a parameter named key
NoKeyQueries == {"", "?Key=a"}

\* C11 (as claimed): a GET on the /get route without a key parameter is
\* answered 400; with a key that is not in the dict it is answered 404 with an
\* error body; with a key k that is in the dict it is answered 200 with
\* {"key": k, "value": v}, v the value the dict holds for k.
C11_GetOutcomes ==
    \A j \in 1..Len(log) :
        LET e == log[j]
        IN  e.req.method = "GET" =>
            /\ \A p \in GetPaths, q \in NoKeyQueries :
                   e.req.path = p \o q => e.status = BAD_REQUEST_CODE
            /\ \A p \in GetPaths, q \in DOMAIN QueryKey :
                   e.req.path = p \o q =>
                       LET k == QueryKey[q]
                       IN  IF EntriesOf(e.before, k) = {}
                           THEN /\ e.status = NOT_FOUND_CODE
                                /\ dict_keys(e.payload) = <<"error">>
                           ELSE \E entry \in EntriesOf(e.before, k) :
                                    /\ e.status = OK_CODE
                                    /\ e.payload = JDict(<< <<"key", JStr(k)>>,
                                                            <<"value", entry[2]>> >>)

\* C12 (as claimed): in every reachable state every key of the dict is a str,
\* and the dict has at most one entry per key.
C12_StringKeys ==
    /\ \A e \in key_value_dict : e[1].t = "str"
    /\ \A e1 \in key_value_dict, e2 \in key_value_dict :
           PyEq(e1[1], e2[1]) => e1 = e2

\* An exception left the try block of the handler that served exchange e
Faulted(e) ==
    IF e.req.method = "GET" THEN do_GET_try(e.req, e.before).exc
    ELSE do_POST_try(e.req, e.before, param_order).exc

InternalErrorBody == JDict(<< <<"error", JStr("Internal Server Error")>> >>)

\* C13: whenever the handling of a GET or POST raises, the client receives
\* status 500 with the body {"error": "Internal Server Error"} and nothing
\* else in it; and no 500 has another body.
C13_InternalFault ==
    \A j \in 1..Len(log) :
        /\ Faulted(log[j]) => log[j].status = SERVER_ERROR_CODE
        /\ log[j].status = SERVER_ERROR_CODE
           => (log[j].payload = InternalErrorBody
               /\ log[j].message = "Internal Server Error")

\* C13's case: int() of the Content-Length abc raised in a POST /set, which
\* has been answered 500 with the generic body
C13_Witness ==
    /\ Len(log) = 1
    /\ PostOn(log[1].req, SetPaths)
    /\ HeaderIs(log[1].req, "Content-Length", {"abc"})
    /\ Faulted(log[1])
    /\ log[1].status = SERVER_ERROR_CODE
    /\ log[1].payload = InternalErrorBody

\* The fields of a dict as a set of <<name, value>> pairs
FieldSet(d) == {d.fields[i] : i \in 1..Len(d.fields)}

\* C14 (as claimed): a POST /set that passes validation (a JSON content type,
\* the length of the body, an acceptable Accept header, an object with the
\* fields key and value) is answered 200 with a body that consists of exactly
\* the submitted key and value fields, the value as it was submitted.
C14_SetEcho ==
    \A j \in 1..Len(log) :
        LET e == log[j]
            submitted == e.req.body.val
        IN  (/\ PostOn(e.req, SetPaths)
             /\ JsonContentType(e.req) /\ ExactLength(e.req) /\ PlainAccept(e.req)
             /\ ObjectBody(e.req)
             /\ HasField(e.req, "key") /\ HasField(e.req, "value"))
            => /\ e.status = OK_CODE
               /\ Len(e.payload.fields) = 2
               /\ FieldSet(e.payload) = {<<"key", dict_field(submitted, "key")>>,
                                         <<"value", dict_field(submitted, "value")>>}

---------------------------------------------------------------------------
(* C15: what a failed request leaves behind (SpecSeq) *)

\* Exchange e is a GET, or a POST that was not answered 200
NoWrite(e) ==
    \/ e.req.method = "GET"
    \/ e.status \in {BAD_REQUEST_CODE, NOT_FOUND_CODE, METHOD_NOT_ALLOWED_CODE,
                     SERVER_ERROR_CODE}

\* Exchange e was answered with an error status
Failed(e) == e.status # OK_CODE

\* The run of the handler on the request of e and the dict d
Handler(e, d) ==
    IF e.req.method = "GET" THEN do_GET(e.req, d) ELSE do_POST(e.req, d, param_order)

\* C15: every GET, and every POST answered 400, 404, 405 or 500, leaves the
\* dict as it found it; and an exchange that follows failed ones has the
\* response, and leaves the dict, that it has on the dict as it was before
\* them.
C15_OnlyPost200Writes ==
    \A j \in 1..Len(log) :
        /\ NoWrite(log[j]) => AfterStore(j) = log[j].before
        /\ \A i \in 1..(j - 1) :
               (\A m \in i..(j - 1) : Failed(log[m]))
               => LET r == Handler(log[j], log[i].before)
                  IN  /\ log[j].status = r.status
                      /\ log[j].message = r.message
                      /\ log[j].payload = r.payload
                      /\ AfterStore(j) = r.dict

\* C15's case: an entry was set, a POST was answered 500, the dict is as it
\* was, and the GET of the entry that follows is answered with it
C15_Witness ==
    /\ Len(log) = 3
    /\ SetOK(log[1], "a", 1)
    /\ log[2].req.method = "POST" /\ log[2].status = SERVER_ERROR_CODE
    /\ log[2].before = {<<JStr("a"), JInt(1)>>}
    /\ IsGet(log[3], "a")
    /\ log[3].payload = EntryPayload("a", 1)
    /\ key_value_dict = {<<JStr("a"), JInt(1)>>}

---------------------------------------------------------------------------
(* C16 and C17: bodies that do not parse, requests without a length
   (SpecWire) *)

\* The body is no JSON text, or holds bytes that are not UTF-8, or is null
Unparseable(body) == ~body.utf8 \/ ~body.json \/ body.val = JNull

\* The missing-parameters message for the expected names, none found
NoneFound(expected) ==
    JStr("Request is missing parameters. Expected: " \o ReprList(expected)
         \o ", Found: []")

\* C16: a POST /set or /delete with a JSON content type, an acceptable Accept
\* header and the length of its body, whose body is no JSON text, is not
\* UTF-8 or is null, is answered 400 with the missing-parameters error that
\* lists the expected fields and an empty list of found fields; not with the
\* request-shape message and not with 500; and the dict is unchanged.
C16_SoftParseFailure ==
    \A j \in 1..Len(log) :
        LET e == log[j]
            soft == /\ JsonContentType(e.req) /\ ExactLength(e.req)
                    /\ PlainAccept(e.req) /\ Unparseable(e.req.body)
        IN  /\ (PostOn(e.req, SetPaths) /\ soft)
               => (/\ e.status = BAD_REQUEST_CODE
                   /\ \E order \in ParamOrders :
                          e.payload = JDict(<< <<"error", NoneFound(order)>> >>)
                   /\ Unchanged(j))
            /\ (PostOn(e.req, DeletePaths) /\ soft)
               => (/\ e.status = BAD_REQUEST_CODE
                   /\ e.payload = JDict(<< <<"error", NoneFound(<<"key">>)>> >>)
                   /\ Unchanged(j))

\* C16's case: a POST /set whose body is the text {nope has been answered 400
\* with no fields found
C16_Witness ==
    /\ Len(log) = 1
    /\ PostOn(log[1].req, SetPaths)
    /\ log[1].req.body = Bytes(TRUE, FALSE, JNull, 5)
    /\ ExactLength(log[1].req)
    /\ log[1].status = BAD_REQUEST_CODE
    /\ log[1].read
    /\ \E order \in ParamOrders :
           log[1].payload = JDict(<< <<"error", NoneFound(order)>> >>)

\* The text of the request-shape error
FixedMessage ==
    "Request should accept JSON and its body should be a JSON object. "
    \o BQ \o "Content-Length" \o BQ \o " header should also be specified"

FixedBody == JDict(<< <<"error", JStr(FixedMessage)>> >>)

\* C17: a POST /set or /delete without a Content-Length header is answered
\* 400 with the request-shape message, whatever its body, Content-Type and
\* Accept are, and the dict is unchanged; a request refused for its Accept
\* header or its Content-Type has that same message.
C17_MissingLength ==
    \A j \in 1..Len(log) :
        LET e == log[j]
            on_route == PostOn(e.req, SetPaths \cup DeletePaths)
        IN  /\ (on_route /\ NoHeader(e.req, "Content-Length"))
               => (/\ e.status = BAD_REQUEST_CODE
                   /\ e.payload = FixedBody
                   /\ e.message = FixedMessage
                   /\ Unchanged(j))
            /\ (/\ on_route /\ ExactLength(e.req)
                /\ \/ ~JsonContentType(e.req)
                   \/ HeaderIs(e.req, "Accept", {"text/html"}))
               => (e.status = BAD_REQUEST_CODE /\ e.payload = FixedBody)

\* C17's case: a POST /set that is valid but for its missing Content-Length
\* has been answered 400 with the request-shape message
C17_Witness ==
    /\ Len(log) = 1
    /\ log[1].req.method = "POST" /\ log[1].req.path = "/set"
    /\ log[1].req.headers = {<<"Content-Type", "application/json">>}
    /\ log[1].req.body = SetBody("a", 1)
    /\ log[1].status = BAD_REQUEST_CODE
    /\ log[1].payload = FixedBody
    /\ key_value_dict = log[1].before

---------------------------------------------------------------------------
(* C18: requests in flight together (Spec); C19: the other keys (SpecWire) *)

\* C18 (as claimed): when a GET /get and a POST /delete of a key that is in
\* the dict, or two POST /delete of it, are in flight together, the GET is
\* answered 200 with the stored value or 404, exactly one delete is answered
\* with the entry, and neither request is answered 500.
C18_AtomicStoreOps ==
    \A j \in 1..(Len(log) - 1), k \in StoreKeys :
        LET a == log[j]
            b == log[j + 1]
            GetFine(e, n) ==
                \/ e.status = OK_CODE /\ e.payload = EntryPayload(k, n)
                \/ e.status = NOT_FOUND_CODE
            DeleteHit(e, n) == e.status = OK_CODE /\ e.payload = EntryPayload(k, n)
            NoFault == a.status # SERVER_ERROR_CODE /\ b.status # SERVER_ERROR_CODE
        IN  a.inflight >= 2 =>
                \A n \in StoreValues :
                    <<JStr(k), JInt(n)>> \in a.before =>
                        /\ (IsGet(a, k) /\ IsDelete(b, k))
                           => (GetFine(a, n) /\ DeleteHit(b, n) /\ NoFault)
                        /\ (IsDelete(a, k) /\ IsGet(b, k))
                           => (DeleteHit(a, n) /\ GetFine(b, n) /\ NoFault)
                        /\ (IsDelete(a, k) /\ IsDelete(b, k))
                           => (DeleteHit(a, n) # DeleteHit(b, n) /\ NoFault)

\* The entries of dict d whose key is another JSON value than k
OtherEntries(d, k) == {x \in d : x[1] # k}

\* C19 (as claimed): a POST /set or POST /delete for key k that is answered
\* 200 changes or removes at most the entry of k: the entries of every other
\* key are the same before and after it.
C19_KeyLocal ==
    \A j \in 1..Len(log) :
        LET e == log[j]
        IN  (PostOn(e.req, SetPaths \cup DeletePaths) /\ e.status = OK_CODE)
            => LET k == dict_field(e.req.body.val, "key")
               IN  OtherEntries(AfterStore(j), k) = OtherEntries(e.before, k)

---------------------------------------------------------------------------
(* C20: every request is answered (SpecLive) *)

\* The n-th request received has its one response: a status of the five, and
\* a JSON object as body
Answered(n) ==
    /\ Len(log) >= n
    /\ log[n].status \in {OK_CODE, BAD_REQUEST_CODE, NOT_FOUND_CODE,
                          METHOD_NOT_ALLOWED_CODE, SERVER_ERROR_CODE}
    /\ log[n].payload.t = "dict"

\* C20 (as claimed): every GET or POST handed to the handler eventually
\* receives its response, one status of 200, 400, 404, 405, 500 with a JSON
\* body; no request is left without a response.
C20_OneResponse ==
    \A n \in 1..MaxRequests :
        (Len(log) + Len(backlog) >= n) ~> Answered(n)

=============================================================================
